---- MODULE Spec2Model ----
(***************************************************************************)
(* CarCrashAnalysis (car_crash_analysis.py): eight fixed analyses over the *)
(* loaded crash relations, a report buffer that collects one labelled      *)
(* entry per analysis, and a sink that replaces the destination file.      *)
(*                                                                         *)
(* A relation (DataFrame) is a sequence of records.  The report buffer and *)
(* the destination file are sequences of newline-terminated lines; a line  *)
(* is a record holding the text before the formatted result ("label") and, *)
(* when the line carries one, the formatted result ("res").                *)
(***************************************************************************)
EXTENDS Integers, Sequences, FiniteSets

(***************************************************************************)
(* Bounds of the model.                                                    *)
(***************************************************************************)
MaxPersons == 4
MaxMixedPersons == 2
MaxUnits == 2
MaxCharges == 1
MaxRankUnits == 17
MaxStride == 3
MaxRuns == 2

(***************************************************************************)
(* Program constants.                                                      *)
(***************************************************************************)
RankFrom == 5
RankTo == 15
TopZips == 5
TopColors == 10
TopStates == 25
TopMakes == 5

Crashes == {1, 2}

\* A column value that is NULL after the implicit text -> number cast.
Null == -1

Min(a, b) == IF a < b THEN a ELSE b
Max(a, b) == IF a > b THEN a ELSE b
Idx(n) == [i \in 1..n |-> i]

(***************************************************************************)
(* Implicit cast of a text column to a number: digits give the number,     *)
(* any other text gives NULL.                                              *)
(***************************************************************************)
Cast(text) ==
    CASE text = "0" -> 0
      [] text = "1" -> 1
      [] text = "2" -> 2
      [] text = "3" -> 3
      [] text = "4" -> 4
      [] OTHER -> Null

\* a + b on columns: NULL when either side is NULL.
Plus(a, b) == IF a = Null \/ b = Null THEN Null ELSE a + b

(***************************************************************************)
(* DataFrame primitives used by the analyses.                              *)
(***************************************************************************)

\* df.limit(n)
Limit(df, n) == SubSeq(df, 1, Min(n, Len(df)))

\* df.orderBy(key, ascending=False): rows with the larger key first, NULL
\* keys last, rows of equal key in their previous order.  keys[i] is the
\* sort key of df[i].
Before(keys, i, j) ==
    \/ keys[i] # Null /\ (keys[j] = Null \/ keys[i] > keys[j])
    \/ keys[i] = keys[j] /\ i < j

OrderByDesc(df, keys) ==
    LET n == Len(df)
        pos == [i \in 1..n |-> Cardinality({j \in 1..n : Before(keys, j, i)}) + 1]
    IN [r \in 1..n |-> df[CHOOSE i \in 1..n : pos[i] = r]]

\* df.groupBy(key).agg(count(col)): one row per distinct key, in the order
\* in which the keys are first met; cnt is the number of rows of the group.
GroupCount(keys) ==
    LET n == Len(keys)
        firsts == SelectSeq(Idx(n), LAMBDA i : \A j \in 1..(i - 1) : keys[j] # keys[i])
    IN [g \in 1..Len(firsts) |->
           [key |-> keys[firsts[g]],
            cnt |-> Cardinality({j \in 1..n : keys[j] = keys[firsts[g]]})]]

\* left.join(right, "CRASH_ID", "inner"): every pair of rows with equal
\* CRASH_ID, left rows outermost.
InnerJoin(left, right) ==
    LET nl == Len(left)
        nr == Len(right)
        pairs == [k \in 1..(nl * nr) |-> <<((k - 1) \div nr) + 1, ((k - 1) % nr) + 1>>]
        hit == SelectSeq(pairs, LAMBDA p : left[p[1]].CRASH_ID = right[p[2]].CRASH_ID)
    IN [k \in 1..Len(hit) |->
           [CRASH_ID |-> left[hit[k][1]].CRASH_ID, l |-> left[hit[k][1]], r |-> right[hit[k][2]]]]

\* left.join(right, "CRASH_ID", "left"): as the inner join, and a left row
\* without a match is kept once with matched = FALSE.
LeftJoin(left, right) ==
    LET nl == Len(left)
        nr == Len(right)
        pairs == [k \in 1..(nl * (nr + 1)) |-> <<((k - 1) \div (nr + 1)) + 1, (k - 1) % (nr + 1)>>]
        hit == SelectSeq(pairs, LAMBDA p :
                  IF p[2] = 0
                  THEN \A j \in 1..nr : right[j].CRASH_ID # left[p[1]].CRASH_ID
                  ELSE right[p[2]].CRASH_ID = left[p[1]].CRASH_ID)
    IN [k \in 1..Len(hit) |->
           [CRASH_ID |-> left[hit[k][1]].CRASH_ID, l |-> left[hit[k][1]], matched |-> hit[k][2] # 0]]

\* df.select(col).distinct(): the values in the order of first occurrence.
Distinct(vals) ==
    LET firsts == SelectSeq(Idx(Len(vals)), LAMBDA i : \A j \in 1..(i - 1) : vals[j] # vals[i])
    IN [k \in 1..Len(firsts) |-> vals[firsts[k]]]

\* Column.contains(pat) on a text given as its sequence of characters.
Contains(text, pat) ==
    \E i \in 1..(Len(text) - Len(pat) + 1) : SubSeq(text, i, i + Len(pat) - 1) = pat

(***************************************************************************)
(* The results of the eight analyses, as functions of the relations.       *)
(***************************************************************************)

\* Analysis 1: filter(DEATH_CNT > 0 & PRSN_GNDR_ID == "MALE").count()
killed_male_result(persons) ==
    Len(SelectSeq(persons, LAMBDA p : Cast(p.DEATH_CNT) > 0 /\ p.PRSN_GNDR_ID = "MALE"))

\* Analysis 2: filter(MOTORCYCLE | POLICE MOTORCYCLE).count()
two_wheelers_result(units) ==
    Len(SelectSeq(units, LAMBDA u : u.VEH_BODY_STYL_ID = "MOTORCYCLE"
                                    \/ u.VEH_BODY_STYL_ID = "POLICE MOTORCYCLE"))

\* Analysis 3, up to collect(): the rows of
\* filter(FEMALE).groupBy(state).agg(count(CRASH_ID)).orderBy(desc).select(state).limit(1)
females_by_state(persons) ==
    LET females == SelectSeq(persons, LAMBDA p : p.PRSN_GNDR_ID = "FEMALE")
    IN GroupCount([i \in 1..Len(females) |-> females[i].DRVR_LIC_STATE_ID])

state_females_rows(persons) ==
    LET groups == females_by_state(persons)
        sorted == OrderByDesc(groups, [i \in 1..Len(groups) |-> groups[i].cnt])
        top == Limit(sorted, 1)
    IN [i \in 1..Len(top) |-> [DRVR_LIC_STATE_ID |-> top[i].key]]

\* The ranked rows with the window filter starting one rank early.
injury_ranked_rows_from_4(units) ==
    LET counted == [i \in 1..Len(units) |->
                       [u |-> units[i],
                        count |-> Plus(Cast(units[i].TOT_INJRY_CNT), Cast(units[i].DEATH_CNT))]]
        df == Limit(OrderByDesc(counted, [i \in 1..Len(counted) |-> counted[i].count]), RankTo)
        windowed == OrderByDesc(df, [i \in 1..Len(df) |-> df[i].count])
        numbered == [i \in 1..Len(windowed) |->
                        [u |-> windowed[i].u, count |-> windowed[i].count, row_num |-> i]]
    IN SelectSeq(numbered, LAMBDA r : RankFrom - 1 <= r.row_num /\ r.row_num <= RankTo)

\* Analysis 4: the ranked rows (withColumn count, orderBy desc, limit 15,
\* row_number over the window ordered by count desc, between(5, 15)).
injury_ranked_rows(units) ==
    LET counted == [i \in 1..Len(units) |->
                       [u |-> units[i],
                        count |-> Plus(Cast(units[i].TOT_INJRY_CNT), Cast(units[i].DEATH_CNT))]]
        df == Limit(OrderByDesc(counted, [i \in 1..Len(counted) |-> counted[i].count]), RankTo)
        windowed == OrderByDesc(df, [i \in 1..Len(df) |-> df[i].count])
        numbered == [i \in 1..Len(windowed) |->
                        [u |-> windowed[i].u, count |-> windowed[i].count, row_num |-> i]]
    IN SelectSeq(numbered, LAMBDA r : RankFrom <= r.row_num /\ r.row_num <= RankTo)

\* Analysis 4: select("VEH_MAKE_ID").collect()
top_5_to_15_result(units) ==
    LET rows == injury_ranked_rows(units)
    IN [i \in 1..Len(rows) |-> [VEH_MAKE_ID |-> rows[i].u.VEH_MAKE_ID]]

\* Analysis 5: units.join(persons).groupBy(style, ethnicity).agg(count).collect()
ethnic_groups_result(units, persons) ==
    LET joined == InnerJoin(units, persons)
        groups == GroupCount([i \in 1..Len(joined) |->
                     <<joined[i].l.VEH_BODY_STYL_ID, joined[i].r.PRSN_ETHNICITY_ID>>])
    IN [i \in 1..Len(groups) |->
           [VEH_BODY_STYL_ID |-> groups[i].key[1],
            PRSN_ETHNICITY_ID |-> groups[i].key[2],
            ethn_count |-> groups[i].cnt]]

\* Analysis 6: the joined rows kept by the where clause.
alcohol_car_rows(persons, units) ==
    SelectSeq(InnerJoin(persons, units), LAMBDA j :
        /\ j.r.VEH_BODY_STYL_ID = "PASSENGER CAR, 4-DOOR"
           \/ j.r.VEH_BODY_STYL_ID = "PASSENGER CAR, 2-DOOR"
        /\ j.l.PRSN_ALC_RSLT_ID = "Positive")

\* Analysis 6: groupBy(DRVR_ZIP).agg(count(CRASH_ID)).orderBy(desc).select(zip).limit(5)
top_zip_codes_result(persons, units) ==
    LET kept == alcohol_car_rows(persons, units)
        groups == GroupCount([i \in 1..Len(kept) |-> kept[i].l.DRVR_ZIP])
        sorted == OrderByDesc(groups, [i \in 1..Len(groups) |-> groups[i].cnt])
        top == Limit(sorted, TopZips)
    IN [i \in 1..Len(top) |-> [DRVR_ZIP |-> top[i].key]]

damage_levels == {"DAMAGED 4", "DAMAGED 5", "DAMAGED 6", "DAMAGE 7 HIGHEST"}

\* Analysis 7 when the filter is accepted: damages_use_df.CRASH_ID.isNull
\* is the method itself, not a call of it, so no row is tested for a
\* missing Damage side; the rows are decided by the other three conditions.
distinct_crash_ids_result(units, damages) ==
    LET kept == SelectSeq(LeftJoin(units, damages), LAMBDA j :
                    /\ j.l.VEH_DMAG_SCL_1_ID \in damage_levels
                    /\ j.l.VEH_DMAG_SCL_2_ID \in damage_levels
                    /\ j.l.FIN_RESP_TYPE_ID # "NA")
        ids == Distinct([i \in 1..Len(kept) |-> kept[i].CRASH_ID])
    IN [i \in 1..Len(ids) |-> [CRASH_ID |-> ids[i]]]

invalid_license == {"NA", "UNLICENSED", "UNKNOWN"}
invalid_states == {"NA", "Unknown"}
SPEED == <<"S", "P", "E", "E", "D">>

\* Analysis 8: groupBy(VEH_COLOR_ID).agg(count).orderBy(desc).limit(10)
top_10_colors(units) ==
    LET groups == GroupCount([i \in 1..Len(units) |-> units[i].VEH_COLOR_ID])
        top == Limit(OrderByDesc(groups, [i \in 1..Len(groups) |-> groups[i].cnt]), TopColors)
    IN {top[i].key : i \in 1..Len(top)}

\* Analysis 8: groupBy(state).agg(count).orderBy(desc).filter(valid).limit(25)
top_25_states_highest_offences(persons) ==
    LET groups == GroupCount([i \in 1..Len(persons) |-> persons[i].DRVR_LIC_STATE_ID])
        sorted == OrderByDesc(groups, [i \in 1..Len(groups) |-> groups[i].cnt])
        top == Limit(SelectSeq(sorted, LAMBDA g : g.key \notin invalid_states), TopStates)
    IN {top[i].key : i \in 1..Len(top)}

\* Analysis 8: join, filter, groupBy(VEH_MAKE_ID), orderBy(desc), limit(5)
top_5_vehicle_makes_result(units, charges, persons) ==
    LET colors == top_10_colors(units)
        states == top_25_states_highest_offences(persons)
        joined == InnerJoin(InnerJoin(units, charges), persons)
        kept == SelectSeq(joined, LAMBDA j :
                    /\ Contains(j.l.r.CHARGES, SPEED)
                    /\ j.r.DRVR_LIC_CLS_ID \notin invalid_license
                    /\ j.r.DRVR_LIC_STATE_ID \in states
                    /\ j.l.l.VEH_COLOR_ID \in colors)
        groups == GroupCount([i \in 1..Len(kept) |-> kept[i].l.l.VEH_MAKE_ID])
        top == Limit(OrderByDesc(groups, [i \in 1..Len(groups) |-> groups[i].cnt]), TopMakes)
    IN [i \in 1..Len(top) |-> [VEH_MAKE_ID |-> top[i].key]]

(***************************************************************************)
(* The fixed text in front of each result.  The text of analysis 8 is a    *)
(* triple-quoted literal that runs over three source lines, so it holds    *)
(* two newlines of its own.                                                *)
(***************************************************************************)
Label1 == "Number of crashes (accidents) in which number of persons killed are male: "
Label2 == "Number of two wheelers booked for crashes: "
Label3 == "State that has highest number of accidents in which females are involved: "
Label4 == "Top 5th to 15th VEH_MAKE_IDs that contribute to a largest number of injuries including death: "
Label5 == "For all the body styles involved in crashes, the top ethnic user group of each unique body style: "
Label6 == "Among the crashed cars, what are the Top 5 Zip Codes with highest number crashes with alcohols as the contributing factor to a crash: "
Label7 == "Count of Distinct Crash IDs where No Damaged Property was observed and Damage Level (VEH_DMAG_SCL~) is above 4 and car avails Insurance: "
Label8a == "Top 5 Vehicle Makes where drivers are charged with speeding related offences,"
Label8b == "        has licensed Drivers, uses top 10 used vehicle colours and has car licensed with the Top 25"
Label8c == "        states with highest number of offences: "

\* "<label>{res}\n".format(res=result): one line, the label then the result.
Line(label, result) == [label |-> label, res |-> result]
\* A line of text that ends before any result is formatted.
TextLine(label) == [label |-> label]

\* The text appended by analysis 8, cut at its newlines.
Lines8(result) == <<TextLine(Label8a), TextLine(Label8b), Line(Label8c, result)>>

(***************************************************************************)
(* Rows of the input relations.                                            *)
(***************************************************************************)
PersonProfiles ==
    << [PRSN_GNDR_ID |-> "FEMALE", DEATH_CNT |-> "0", PRSN_ETHNICITY_ID |-> "WHITE",
        DRVR_LIC_STATE_ID |-> "TX", DRVR_LIC_CLS_ID |-> "CLASS C",
        DRVR_ZIP |-> "78701", PRSN_ALC_RSLT_ID |-> "Positive"],
       [PRSN_GNDR_ID |-> "FEMALE", DEATH_CNT |-> "NA", PRSN_ETHNICITY_ID |-> "HISPANIC",
        DRVR_LIC_STATE_ID |-> "CA", DRVR_LIC_CLS_ID |-> "CLASS C",
        DRVR_ZIP |-> "90001", PRSN_ALC_RSLT_ID |-> "Positive"],
       [PRSN_GNDR_ID |-> "MALE", DEATH_CNT |-> "1", PRSN_ETHNICITY_ID |-> "WHITE",
        DRVR_LIC_STATE_ID |-> "NA", DRVR_LIC_CLS_ID |-> "UNLICENSED",
        DRVR_ZIP |-> "78701", PRSN_ALC_RSLT_ID |-> "Negative"] >>

PersonRow(c, g) ==
    LET p == PersonProfiles[g]
    IN [CRASH_ID |-> c, PRSN_GNDR_ID |-> p.PRSN_GNDR_ID, DEATH_CNT |-> p.DEATH_CNT,
        PRSN_ETHNICITY_ID |-> p.PRSN_ETHNICITY_ID, DRVR_LIC_STATE_ID |-> p.DRVR_LIC_STATE_ID,
        DRVR_LIC_CLS_ID |-> p.DRVR_LIC_CLS_ID, DRVR_ZIP |-> p.DRVR_ZIP,
        PRSN_ALC_RSLT_ID |-> p.PRSN_ALC_RSLT_ID]

PersonRows == {PersonRow(c, g) : c \in Crashes, g \in 1..Len(PersonProfiles)}
FemaleRows == {r \in PersonRows : r.PRSN_GNDR_ID = "FEMALE"}

UnitProfiles ==
    << [VEH_BODY_STYL_ID |-> "PASSENGER CAR, 4-DOOR", VEH_MAKE_ID |-> "FORD",
        VEH_COLOR_ID |-> "WHI", VEH_DMAG_SCL_1_ID |-> "DAMAGED 5",
        VEH_DMAG_SCL_2_ID |-> "DAMAGED 4", FIN_RESP_TYPE_ID |-> "LIABILITY INSURANCE POLICY",
        TOT_INJRY_CNT |-> "1", DEATH_CNT |-> "0"],
       [VEH_BODY_STYL_ID |-> "MOTORCYCLE", VEH_MAKE_ID |-> "HONDA",
        VEH_COLOR_ID |-> "BLK", VEH_DMAG_SCL_1_ID |-> "DAMAGED 2",
        VEH_DMAG_SCL_2_ID |-> "NA", FIN_RESP_TYPE_ID |-> "NA",
        TOT_INJRY_CNT |-> "2", DEATH_CNT |-> "1"],
       [VEH_BODY_STYL_ID |-> "PASSENGER CAR, 2-DOOR", VEH_MAKE_ID |-> "TOYOTA",
        VEH_COLOR_ID |-> "WHI", VEH_DMAG_SCL_1_ID |-> "DAMAGE 7 HIGHEST",
        VEH_DMAG_SCL_2_ID |-> "DAMAGED 6", FIN_RESP_TYPE_ID |-> "NA",
        TOT_INJRY_CNT |-> "0", DEATH_CNT |-> "0"],
       [VEH_BODY_STYL_ID |-> "POLICE MOTORCYCLE", VEH_MAKE_ID |-> "BMW",
        VEH_COLOR_ID |-> "BLU", VEH_DMAG_SCL_1_ID |-> "DAMAGED 4",
        VEH_DMAG_SCL_2_ID |-> "DAMAGED 4", FIN_RESP_TYPE_ID |-> "PROOF OF LIABILITY INSURANCE",
        TOT_INJRY_CNT |-> "3", DEATH_CNT |-> "1"],
       [VEH_BODY_STYL_ID |-> "PICKUP", VEH_MAKE_ID |-> "DODGE",
        VEH_COLOR_ID |-> "RED", VEH_DMAG_SCL_1_ID |-> "NA",
        VEH_DMAG_SCL_2_ID |-> "NA", FIN_RESP_TYPE_ID |-> "NA",
        TOT_INJRY_CNT |-> "", DEATH_CNT |-> "0"] >>

UnitRow(c, g) ==
    LET u == UnitProfiles[g]
    IN [CRASH_ID |-> c, VEH_BODY_STYL_ID |-> u.VEH_BODY_STYL_ID, VEH_MAKE_ID |-> u.VEH_MAKE_ID,
        VEH_COLOR_ID |-> u.VEH_COLOR_ID, VEH_DMAG_SCL_1_ID |-> u.VEH_DMAG_SCL_1_ID,
        VEH_DMAG_SCL_2_ID |-> u.VEH_DMAG_SCL_2_ID, FIN_RESP_TYPE_ID |-> u.FIN_RESP_TYPE_ID,
        TOT_INJRY_CNT |-> u.TOT_INJRY_CNT, DEATH_CNT |-> u.DEATH_CNT]

UnitRows == {UnitRow(c, g) : c \in Crashes, g \in 1..Len(UnitProfiles)}
\* The unit rows that differ in what analysis 7 reads.
DamageScaleRows == {r \in UnitRows : r.VEH_COLOR_ID # "BLU" /\ r.VEH_COLOR_ID # "RED"}

ChargeTexts ==
    { <<"S", "P", "E", "E", "D", "I", "N", "G">>,
      <<"U", "N", "S", "A", "F", "E", " ", "S", "P", "E", "E", "D">>,
      <<"D", "W", "I">> }

ChargeRows == {[CRASH_ID |-> c, CHARGES |-> t] : c \in Crashes, t \in ChargeTexts}
DamageRows == {[CRASH_ID |-> c] : c \in Crashes}

\* All relations of at most n rows drawn from rows.
Tables(rows, n) == UNION {[1..k -> rows] : k \in 0..n}

BasePersons == <<PersonRow(1, 1), PersonRow(2, 2), PersonRow(2, 3)>>
BaseUnits == <<UnitRow(1, 1), UnitRow(2, 1)>>
BaseCharges == <<[CRASH_ID |-> 1, CHARGES |-> <<"S", "P", "E", "E", "D", "I", "N", "G">>]>>
BaseDamages == <<[CRASH_ID |-> 1]>>

\* A Unit relation of n rows that walks through the unit profiles with
\* stride a from offset b, one crash per row pair.
StrideUnits(n, a, b) ==
    [i \in 1..n |-> UnitRow((i % Cardinality(Crashes)) + 1,
                            ((a * i + b) % Len(UnitProfiles)) + 1)]

(***************************************************************************)
(* The destination file.                                                   *)
(***************************************************************************)
Absent == [exists |-> FALSE, text |-> <<>>, torn |-> FALSE]
\* A file holding exactly the lines of text.
Holding(text) == [exists |-> TRUE, text |-> text, torn |-> FALSE]
\* A file left by a write that failed after open(path, "w"): truncated, and
\* holding less than the buffer.
Torn == [exists |-> TRUE, text |-> <<>>, torn |-> TRUE]
OldReport == Holding(<<TextLine("report of an earlier process")>>)

(***************************************************************************)
(* State.  The four relations the analyses read, the report buffer         *)
(* (_output), the destination file, the position of execute_analysis, and  *)
(* the history of the current call: the analyses that returned, where an   *)
(* exception left execute_analysis, how often write_to_file was entered,   *)
(* what the Column class makes of the filter of analysis 7,                *)
(* the file as the call found it, whether os.remove failed, and the text   *)
(* of every successful write so far.                                       *)
(***************************************************************************)
VARIABLES primary_person_use_df, units_use_df, charges_use_df, damages_use_df,
          isNull_accepted, output, file, pc, runs, completed, raisedAt,
          writeCalls, fileBefore, removeFailed, written

relations == <<primary_person_use_df, units_use_df, charges_use_df, damages_use_df,
               isNull_accepted>>
history == <<runs, fileBefore>>
vars == <<primary_person_use_df, units_use_df, charges_use_df, damages_use_df,
          isNull_accepted, output, file, pc, runs, completed, raisedAt,
          writeCalls, fileBefore, removeFailed, written>>

\* __init__ after the relations are loaded: an empty buffer, no call yet.
Constructed(files) ==
    /\ isNull_accepted \in BOOLEAN
    /\ output = <<>>
    /\ file \in files
    /\ pc = "idle"
    /\ runs = 0
    /\ completed = <<>>
    /\ raisedAt = "none"
    /\ writeCalls = 0
    /\ fileBefore = file
    /\ removeFailed = FALSE
    /\ written = <<>>

\* Person relations of up to MaxPersons FEMALE rows.
InitPersons ==
    /\ primary_person_use_df \in Tables(FemaleRows, MaxPersons)
    /\ units_use_df = BaseUnits
    /\ charges_use_df = BaseCharges
    /\ damages_use_df = BaseDamages
    /\ Constructed({Absent})

\* Person relations of up to MaxMixedPersons rows of either gender.
InitMixedPersons ==
    /\ primary_person_use_df \in Tables(PersonRows, MaxMixedPersons)
    /\ units_use_df = BaseUnits
    /\ charges_use_df = BaseCharges
    /\ damages_use_df = BaseDamages
    /\ Constructed({Absent, OldReport})

\* Unit relations of up to MaxUnits rows, with and without a Damage row.
InitUnits ==
    /\ primary_person_use_df = BasePersons
    /\ units_use_df \in Tables(DamageScaleRows, MaxUnits)
    /\ charges_use_df = BaseCharges
    /\ damages_use_df \in {<<>>, BaseDamages}
    /\ Constructed({Absent, OldReport})

\* Charge relations of up to MaxCharges rows.
InitCharges ==
    /\ primary_person_use_df = BasePersons
    /\ units_use_df = BaseUnits
    /\ charges_use_df \in Tables(ChargeRows, MaxCharges)
    /\ damages_use_df = <<>>
    /\ Constructed({Absent, OldReport})

\* Unit relations long enough to fill and overfill the ranks 5 to 15.
InitRank ==
    /\ primary_person_use_df = BasePersons
    /\ \E n \in 0..MaxRankUnits, a \in 0..MaxStride, b \in 0..(Len(UnitProfiles) - 1) :
          units_use_df = StrideUnits(n, a, b)
    /\ charges_use_df = BaseCharges
    /\ damages_use_df = BaseDamages
    /\ Constructed({Absent})

Init == InitPersons \/ InitMixedPersons \/ InitUnits \/ InitCharges \/ InitRank

(***************************************************************************)
(* execute_analysis                                                        *)
(***************************************************************************)

\* An analysis returned: its text is in the buffer, the next one starts.
Returned(k, lines, next) ==
    /\ output' = output \o lines
    /\ completed' = Append(completed, k)
    /\ pc' = next
    /\ UNCHANGED <<relations, file, history, raisedAt, writeCalls, removeFailed, written>>

\* An exception left the step at pc: no handler of execute_analysis
\* recovers, each prints and re-raises, so the call ends with the error.
Raised ==
    /\ raisedAt' = pc
    /\ pc' = "raised"
    /\ UNCHANGED <<relations, output, file, history, completed, writeCalls, removeFailed, written>>

\* A call of execute_analysis on the constructed object, the first one or
\* one that follows a call that returned; the buffer is the one __init__
\* made and is not touched here.
execute_analysis ==
    /\ pc \in {"idle", "done"}
    /\ runs < MaxRuns
    /\ runs' = runs + 1
    /\ pc' = "a1"
    /\ completed' = <<>>
    /\ raisedAt' = "none"
    /\ writeCalls' = 0
    /\ fileBefore' = file
    /\ removeFailed' = FALSE
    /\ UNCHANGED <<relations, output, file, written>>

get_no_of_car_crashes_persons_killed_male ==
    /\ pc = "a1"
    /\ Returned(1, <<Line(Label1, killed_male_result(primary_person_use_df))>>, "a2")

two_wheelers_booked_for_crashes ==
    /\ pc = "a2"
    /\ Returned(2, <<Line(Label2, two_wheelers_result(units_use_df))>>, "a3")

\* Analysis 3 with the IndexError caught and dropped inside the analysis.
state_with_highest_accidents_females_swallowing ==
    /\ pc = "a3"
    /\ LET rows == state_females_rows(primary_person_use_df)
       IN IF rows = <<>>
          THEN /\ pc' = "a4"
               /\ UNCHANGED <<relations, output, file, history, completed, raisedAt,
                              writeCalls, removeFailed, written>>
          ELSE Returned(3, <<Line(Label3, rows[1])>>, "a4")

\* collect()[0]: an IndexError when no row is collected.
state_with_highest_accidents_females ==
    /\ pc = "a3"
    /\ LET rows == state_females_rows(primary_person_use_df)
       IN IF rows = <<>>
          THEN Raised
          ELSE Returned(3, <<Line(Label3, rows[1])>>, "a4")

top_5_to_15_vehicle_ids_largest_no_of_injuries ==
    /\ pc = "a4"
    /\ Returned(4, <<Line(Label4, top_5_to_15_result(units_use_df))>>, "a5")

top_ethnic_user_group_of_each_unique_body_style ==
    /\ pc = "a5"
    /\ Returned(5, <<Line(Label5, ethnic_groups_result(units_use_df, primary_person_use_df))>>, "a6")

top_5_zip_codes_with_highest_no_of_crashes_with_alcohol_factor ==
    /\ pc = "a6"
    /\ Returned(6, <<Line(Label6, top_zip_codes_result(primary_person_use_df, units_use_df))>>, "a7")

\* The filter starts with  damages_use_df.CRASH_ID.isNull & (...) : the left
\* operand is a bound method, so the conjunction is built by the Column
\* class's reflected operator, which is not part of this program.  It either
\* rejects the operand (the call raises) or yields a filter of the remaining
\* conditions; which of the two is fixed for the life of the object
\* (isNull_accepted), and both are covered.
count_distinct_crash_ids_with_damages ==
    /\ pc = "a7"
    /\ IF isNull_accepted
       THEN Returned(7, <<Line(Label7, distinct_crash_ids_result(units_use_df, damages_use_df))>>, "a8")
       ELSE Raised

determine_top_5_vehicle_makes ==
    /\ pc = "a8"
    /\ Returned(8, Lines8(top_5_vehicle_makes_result(units_use_df, charges_use_df,
                                                     primary_person_use_df)), "write")

(***************************************************************************)
(* write_to_file                                                           *)
(***************************************************************************)

\* _remove_file_if_exists: os.remove when the path exists; an exception is
\* printed and not raised again, the file then stays.
remove_file_if_exists ==
    /\ pc = "write"
    /\ writeCalls' = writeCalls + 1
    /\ pc' = "open"
    /\ IF file.exists
       THEN \E removed \in BOOLEAN :
               /\ file' = IF removed THEN Absent ELSE file
               /\ removeFailed' = ~removed
       ELSE UNCHANGED <<file, removeFailed>>
    /\ UNCHANGED <<relations, output, history, completed, raisedAt, written>>

\* open(path, "w") and write(_output): the whole buffer is written, or open
\* fails and leaves the path as it is, or the write fails on the truncated
\* file; a failure is printed and raised again.
write_to_file ==
    /\ pc = "open"
    /\ \E outcome \in {"written", "open fails", "write fails"} :
          CASE outcome = "written" ->
                  /\ file' = Holding(output)
                  /\ written' = Append(written, output)
                  /\ pc' = "done"
                  /\ UNCHANGED raisedAt
            [] outcome = "open fails" ->
                  /\ file' = file
                  /\ pc' = "raised"
                  /\ raisedAt' = "write"
                  /\ UNCHANGED written
            [] outcome = "write fails" ->
                  /\ file' = Torn
                  /\ pc' = "raised"
                  /\ raisedAt' = "write"
                  /\ UNCHANGED written
    /\ UNCHANGED <<relations, output, history, completed, writeCalls, removeFailed>>

Next ==
    \/ execute_analysis
    \/ get_no_of_car_crashes_persons_killed_male
    \/ two_wheelers_booked_for_crashes
    \/ state_with_highest_accidents_females
    \/ top_5_to_15_vehicle_ids_largest_no_of_injuries
    \/ top_ethnic_user_group_of_each_unique_body_style
    \/ top_5_zip_codes_with_highest_no_of_crashes_with_alcohol_factor
    \/ count_distinct_crash_ids_with_damages
    \/ determine_top_5_vehicle_makes
    \/ remove_file_if_exists
    \/ write_to_file

Spec == Init /\ [][Next]_vars

(***************************************************************************)
(* Properties.                                                             *)
(***************************************************************************)
AllEight == <<1, 2, 3, 4, 5, 6, 7, 8>>
AnalysisSteps == {"a1", "a2", "a3", "a4", "a5", "a6", "a7", "a8"}
Ended == pc \in {"done", "raised"}

\* The lines of the buffer that carry the result of the analysis labelled label.
ResultsOf(label) ==
    LET hits == SelectSeq(output, LAMBDA l : l.label = label)
    IN [i \in 1..Len(hits) |-> hits[i].res]

\* The analyses that returned are 1..k, in that order, for some k.
InOrder == completed = SubSeq(AllEight, 1, Len(completed))

\* The step that raised is the one after the analyses that returned.
AbortedAtAnalysis ==
    /\ pc = "raised"
    /\ raisedAt \in AnalysisSteps
    /\ InOrder
    /\ Len(completed) < Len(AllEight)
    /\ raisedAt = <<"a1", "a2", "a3", "a4", "a5", "a6", "a7", "a8">>[Len(completed) + 1]
    /\ writeCalls = 0
    /\ file = fileBefore

CompletedAndWritten ==
    /\ pc = "done"
    /\ completed = AllEight
    /\ writeCalls = 1
    /\ file = Holding(output)

SinkFailed ==
    /\ pc = "raised"
    /\ raisedAt = "write"
    /\ completed = AllEight
    /\ writeCalls = 1

\* C2 as claimed: a call that has ended either completed the eight analyses
\* in order and wrote the report once, or aborted on the first analysis that
\* raised, with write_to_file never reached and the file as before the call.
C2_CompletesOrAbortsOnAnalysis ==
    Ended => CompletedAndWritten \/ AbortedAtAnalysis

\* C2 as amended: the analyses always return in the order 1..8,
\* write_to_file is entered at most once and only after all eight, and a
\* call that has ended completed and wrote the report once, or aborted on
\* the first analysis that raised (write_to_file not reached, file as
\* before the call, error raised to the caller), or completed the eight
\* analyses and failed in write_to_file, the error raised to the caller.
C2_CompletesAbortsOrSinkFails ==
    /\ InOrder
    /\ writeCalls <= 1
    /\ writeCalls = 1 => completed = AllEight
    /\ Ended => CompletedAndWritten \/ AbortedAtAnalysis \/ SinkFailed

\* C2, witness: a call aborted by analysis 3 after analyses 1 and 2, over
\* an existing file that is left as it was.
C2_Witness ==
    /\ AbortedAtAnalysis
    /\ raisedAt = "a3"
    /\ completed = <<1, 2>>
    /\ Len(output) = 2
    /\ file = OldReport

\* The text each of the eight lines is to begin with.
FixedLabels == <<Label1, Label2, Label3, Label4, Label5, Label6, Label7, Label8a>>

\* C1: after a call that completed, the file holds exactly 8 lines, line i
\* beginning with the fixed text of analysis i (the first call on the
\* object, whose buffer started empty).
C1_EightLabelledLines ==
    pc = "done" /\ runs = 1 =>
        /\ Len(file.text) = Len(AllEight)
        /\ \A i \in 1..Len(AllEight) : file.text[i].label = FixedLabels[i]

\* C3: after write_to_file succeeded the file holds exactly the buffer, and
\* no failure of the sink was swallowed: a failed os.remove does not end in
\* a call that returns normally.
C3_SinkFailureSurfaced ==
    pc = "done" => file = Holding(output) /\ ~removeFailed

\* C4: two calls in succession on unchanged relations write the same text.
C4_SecondRunIdentical ==
    Len(written) = 2 => written[1] = written[2]

\* C5: no analysis fails on a zero-row intermediate result: analysis 3 does
\* not raise when no Person row is FEMALE, nor analysis 8 when the Charge
\* relation is empty.
C5_ZeroRowsNeverRaise ==
    /\ pc = "raised" /\ raisedAt = "a3" =>
          SelectSeq(primary_person_use_df, LAMBDA p : p.PRSN_GNDR_ID = "FEMALE") # <<>>
    /\ pc = "raised" /\ raisedAt = "a8" => charges_use_df # <<>>

\* The state C6 names: the most distinct CRASH_ID values among FEMALE rows,
\* the first such state in the order of first occurrence.
FemaleCrashes(st) ==
    {primary_person_use_df[i].CRASH_ID : i \in
        {j \in 1..Len(primary_person_use_df) :
            /\ primary_person_use_df[j].PRSN_GNDR_ID = "FEMALE"
            /\ primary_person_use_df[j].DRVR_LIC_STATE_ID = st}}

StateOfMostFemaleCrashes ==
    LET females == SelectSeq(primary_person_use_df, LAMBDA p : p.PRSN_GNDR_ID = "FEMALE")
        states == Distinct([i \in 1..Len(females) |-> females[i].DRVR_LIC_STATE_ID])
        best == CHOOSE i \in 1..Len(states) :
                   /\ \A j \in 1..Len(states) :
                         Cardinality(FemaleCrashes(states[j])) <= Cardinality(FemaleCrashes(states[i]))
                   /\ \A j \in 1..(i - 1) :
                         Cardinality(FemaleCrashes(states[j])) < Cardinality(FemaleCrashes(states[i]))
    IN states[best]

\* C6: analysis 3 reports the state with the largest number of distinct
\* CRASH_ID values among its FEMALE rows.
C6_MostDistinctFemaleCrashes ==
    \A i \in 1..Len(ResultsOf(Label3)) :
        ResultsOf(Label3)[i].DRVR_LIC_STATE_ID = StateOfMostFemaleCrashes

\* injurySeverity = TOT_INJRY_CNT + DEATH_CNT of a Unit row.
injurySeverity(u) == Plus(Cast(u.TOT_INJRY_CNT), Cast(u.DEATH_CNT))
\* Comparison of severities, a NULL severity below every number.
SevGreater(a, b) == a # Null /\ (b = Null \/ a > b)
SevGeq(a, b) == b = Null \/ (a # Null /\ a >= b)

\* C7: analysis 4 reports the VEH_MAKE_ID of the Unit rows at positions 5 to
\* 15 of the descending order by injurySeverity, one entry per unit, in rank
\* order: max(0, min(n, 15) - 4) entries; the unit behind entry k can stand
\* at position k + 4 of a descending order (fewer than k + 4 units are
\* strictly more severe, at least k + 4 are as severe or more); no unit is
\* used more often than it occurs; adjacent entries do not increase.
C7_RankSlice ==
    ResultsOf(Label4) # <<>> =>
        \E units \in {units_use_df} :
        \E rows \in {injury_ranked_rows(units)} :
        \E sev \in {[k \in 1..Len(rows) |-> injurySeverity(rows[k].u)]} :
        \E all \in {[i \in 1..Len(units) |-> injurySeverity(units[i])]} :
        \E results \in {ResultsOf(Label4)} :
           \A r \in 1..Len(results) :
              /\ Len(results[r]) = Max(0, Min(Len(units), RankTo) - (RankFrom - 1))
              /\ Len(results[r]) <= 11
              /\ Len(rows) = Len(results[r])
              /\ \A k \in 1..Len(rows) :
                    /\ results[r][k] = [VEH_MAKE_ID |-> rows[k].u.VEH_MAKE_ID]
                    /\ Cardinality({i \in 1..Len(units) : SevGreater(all[i], sev[k])})
                          < k + RankFrom - 1
                    /\ Cardinality({i \in 1..Len(units) : SevGeq(all[i], sev[k])})
                          >= k + RankFrom - 1
                    /\ Cardinality({j \in 1..Len(rows) : rows[j].u = rows[k].u})
                          <= Cardinality({i \in 1..Len(units) : units[i] = rows[k].u})
              /\ \A k \in 1..(Len(rows) - 1) : SevGeq(sev[k], sev[k + 1])

\* C7, witness: more than 15 units, analysis 4 has reported 11 makes, not
\* all of one severity.
C7_Witness ==
    /\ Len(units_use_df) > RankTo
    /\ ResultsOf(Label4) # <<>>
    /\ Len(ResultsOf(Label4)[1]) = 11
    /\ LET rows == injury_ranked_rows(units_use_df)
       IN \E k \in 1..(Len(rows) - 1) :
             SevGreater(injurySeverity(rows[k].u), injurySeverity(rows[k + 1].u))

\* C8: analysis 5 reports one entry per body style of the Unit-Person join,
\* the ethnicity with the most joined rows for that style: no body style
\* appears twice, and every entry has the maximal count of its style.
C8_OneEthnicityPerStyle ==
    \A r \in 1..Len(ResultsOf(Label5)) :
        LET res == ResultsOf(Label5)[r]
            joined == InnerJoin(units_use_df, primary_person_use_df)
            rowsOf(style, eth) ==
                Cardinality({i \in 1..Len(joined) :
                    /\ joined[i].l.VEH_BODY_STYL_ID = style
                    /\ joined[i].r.PRSN_ETHNICITY_ID = eth})
        IN /\ \A i, j \in 1..Len(res) :
                 res[i].VEH_BODY_STYL_ID = res[j].VEH_BODY_STYL_ID => i = j
           /\ {res[i].VEH_BODY_STYL_ID : i \in 1..Len(res)}
                 = {joined[i].l.VEH_BODY_STYL_ID : i \in 1..Len(joined)}
           /\ \A i \in 1..Len(res) : \A k \in 1..Len(joined) :
                 rowsOf(res[i].VEH_BODY_STYL_ID, joined[k].r.PRSN_ETHNICITY_ID)
                    <= rowsOf(res[i].VEH_BODY_STYL_ID, res[i].PRSN_ETHNICITY_ID)

\* The crashes C9 counts: a Unit row without any Damage row of its crash,
\* both damage scales in damage_levels, FIN_RESP_TYPE_ID not "NA".
UndamagedInsuredCrashes ==
    {units_use_df[i].CRASH_ID : i \in
        {j \in 1..Len(units_use_df) :
            /\ \A d \in 1..Len(damages_use_df) :
                  damages_use_df[d].CRASH_ID # units_use_df[j].CRASH_ID
            /\ units_use_df[j].VEH_DMAG_SCL_1_ID \in damage_levels
            /\ units_use_df[j].VEH_DMAG_SCL_2_ID \in damage_levels
            /\ units_use_df[j].FIN_RESP_TYPE_ID # "NA"}}

\* C9: analysis 7 reports the number of distinct CRASH_ID values of Unit
\* rows with no Damage row, both damage scales high and insurance present
\* (here: the analysis does not raise, and as many CRASH_IDs are reported
\* as there are such crashes).
C9_CountsUndamagedInsured ==
    /\ raisedAt # "a7"
    /\ \A r \in 1..Len(ResultsOf(Label7)) :
          Len(ResultsOf(Label7)[r]) = Cardinality(UndamagedInsuredCrashes)

\* The distinct crashes of a zip among the rows analysis 6 keeps.
ZipCrashes(zip) ==
    LET kept == alcohol_car_rows(primary_person_use_df, units_use_df)
    IN {kept[i].CRASH_ID : i \in {j \in 1..Len(kept) : kept[j].l.DRVR_ZIP = zip}}

\* C10: analysis 6 reports at most 5 zips, in descending order of their
\* number of distinct crashes, and no zip left out has strictly more
\* distinct crashes than a zip reported.
C10_ZipsByDistinctCrashes ==
    \A r \in 1..Len(ResultsOf(Label6)) :
        LET res == ResultsOf(Label6)[r]
            kept == alcohol_car_rows(primary_person_use_df, units_use_df)
            zips == {kept[i].l.DRVR_ZIP : i \in 1..Len(kept)}
            inside == {res[i].DRVR_ZIP : i \in 1..Len(res)}
        IN /\ Len(res) <= TopZips
           /\ inside \subseteq zips
           /\ \A i \in 1..(Len(res) - 1) :
                 Cardinality(ZipCrashes(res[i].DRVR_ZIP))
                    >= Cardinality(ZipCrashes(res[i + 1].DRVR_ZIP))
           /\ \A z \in zips \ inside : \A i \in 1..Len(res) :
                 Cardinality(ZipCrashes(z)) <= Cardinality(ZipCrashes(res[i].DRVR_ZIP))

====
